---------------------------- MODULE Spec2Model ----------------------------
(***************************************************************************)
(* A model of RustGit's read-only git decoder: the hash codec, the object  *)
(* header check, the commit and tree parsers, the loose-object reads, the  *)
(* lookup of a path, head resolution (ParseTree/src/main.rs) and the pack  *)
(* index reader (CheckHashBuckets/src/main.rs).                            *)
(*                                                                         *)
(* Bytes are the integers 0..255, byte strings and text are sequences of   *)
(* bytes.  Option<T> / io::Result<T> values are records: None, Some(v).    *)
(***************************************************************************)
EXTENDS Integers, Sequences, FiniteSets, TLC

VARIABLES
    pc,            \* the control point of the running program
    hash,          \* Hash codec: the Hash handed to Display (an Option)
    hex_hash,      \* Hash codec: the text handed to Hash::from_str
    parsed,        \* Hash codec: what Hash::from_str returned
    header,        \* check_header: the expected type literal
    object,        \* the payload bytes handed to check_header / parse_*
    written,       \* what the payload was assembled from (lines, entries)
    ret,           \* what check_header / parse_commit / parse_tree returned
    head_file,     \* .git/HEAD: its bytes, or None when there is no file
    ref_files,     \* .git/refs/heads/: file name -> bytes
    head,          \* what get_head returned (an io::Result<Head>)
    head_hash,     \* what Head::get_hash returned (an io::Result<Hash>)
    overflow_checks,     \* the build: debug (TRUE) or release (FALSE)
    file,                \* the pack index file: its bytes, or None
    pos,                 \* the read position in the file
    cumulative_objects,  \* read_pack_index: the 256 counters read
    previous_objects,    \* read_pack_index: the counter of the bucket before
    first_byte,          \* read_pack_index: the bucket being read
    range,               \* read_pack_index: 0..(objects - previous_objects)
    previous_hash,       \* read_pack_index: the hash read before, if any
    outcome,             \* read_pack_index: running, ok, io_error or panic
    store,         \* .git/objects: Hash -> the loose-object file of that hash
    path,          \* get_file_blob: the path asked for
    names,         \* get_file_blob: the segments of path.split('/') to come
    walk_hash,     \* get_file_blob: its local `hash`
    walk_tree,     \* get_file_blob: what the last read_tree returned
    matched,       \* get_file_blob: the entries found so far, in order
    reads,         \* the read_object calls made so far, in order
    blob           \* what get_file_blob returned (an io::Result<Blob>)

hexVars == <<hash, hex_hash, parsed>>

objectVars == <<header, object, written, ret>>

headVars == <<head_file, ref_files, head, head_hash>>

indexVars ==
    <<overflow_checks, file, pos, cumulative_objects, previous_objects,
      first_byte, range, previous_hash, outcome>>

walkVars == <<store, path, names, walk_hash, walk_tree, matched, reads, blob>>

vars == <<pc, hexVars, objectVars, headVars, indexVars, walkVars>>

----------------------------------------------------------------------------
(* Option values *)

None == [some |-> FALSE]

Some(v) == [some |-> TRUE, val |-> v]

Byte == 0..255

(* Sequence helpers over byte strings *)
StartsWith(s, p) == Len(s) >= Len(p) /\ SubSeq(s, 1, Len(p)) = p

Drop(s, n) == SubSeq(s, n + 1, Len(s))

RECURSIVE Concat(_)
Concat(ss) == IF ss = <<>> THEN <<>> ELSE Head(ss) \o Concat(Tail(ss))

----------------------------------------------------------------------------
(* Hash codec *)

HASH_BYTES == 20

\* fn hex_char_value(hex_char: u8) -> Option<u8>, accepting A-F as well
hex_char_value_anycase(hex_char) ==
    IF hex_char >= 48 /\ hex_char <= 57 THEN Some(hex_char - 48)
    ELSE IF hex_char >= 97 /\ hex_char <= 102 THEN Some(hex_char - 97 + 10)
    ELSE IF hex_char >= 65 /\ hex_char <= 70 THEN Some(hex_char - 65 + 10)
    ELSE None

\* fn hex_char_value(hex_char: u8) -> Option<u8>
hex_char_value(hex_char) ==
    IF hex_char >= 48 /\ hex_char <= 57 THEN Some(hex_char - 48)
    ELSE IF hex_char >= 97 /\ hex_char <= 102 THEN Some(hex_char - 97 + 10)
    ELSE None

BITS_PER_CHAR == 4

CHARS_PER_BYTE == 8 \div BITS_PER_CHAR

\* value << BITS_PER_CHAR | char_value on u8: the shift drops the high bits,
\* and the low BITS_PER_CHAR bits it leaves zero take char_value (< 16)
ShlOr(value, char_value) == ((value * (2 ^ BITS_PER_CHAR)) % 256) + char_value

\* hex_digits.iter().try_fold(0, |value, &byte| ...) over one chunk
RECURSIVE TryFoldChunk(_, _)
TryFoldChunk(value, hex_digits) ==
    IF hex_digits = <<>> THEN Some(value)
    ELSE LET char_value == hex_char_value(Head(hex_digits))
         IN  IF ~char_value.some THEN None
             ELSE TryFoldChunk(ShlOr(value, char_value.val), Tail(hex_digits))

\* byte_chunks.map(...).collect::<Option<Vec<_>>>()
RECURSIVE CollectChunks(_)
CollectChunks(hex) ==
    IF hex = <<>> THEN Some(<<>>)
    ELSE LET b == TryFoldChunk(0, SubSeq(hex, 1, CHARS_PER_BYTE))
         IN  IF ~b.some THEN None
             ELSE LET rest == CollectChunks(Drop(hex, CHARS_PER_BYTE))
                  IN  IF ~rest.some THEN None
                      ELSE Some(<<b.val>> \o rest.val)

\* hex_to_hash that keeps the first HASH_BYTES bytes of a longer input
hex_to_hash_truncating(hex) ==
    IF Len(hex) % CHARS_PER_BYTE # 0 THEN None
    ELSE LET bytes == CollectChunks(hex)
         IN  IF ~bytes.some THEN None
             ELSE IF Len(bytes.val) < HASH_BYTES THEN None
             ELSE Some(SubSeq(bytes.val, 1, HASH_BYTES))

\* fn hex_to_hash(hex_hash: &[u8]) -> Option<Hash>
hex_to_hash(hex) ==
    IF Len(hex) % CHARS_PER_BYTE # 0 THEN None
    ELSE LET bytes == CollectChunks(hex)
         IN  IF ~bytes.some THEN None
             ELSE IF Len(bytes.val) # HASH_BYTES THEN None
             ELSE Some(bytes.val)

\* impl FromStr for Hash: Err exactly when hex_to_hash is None
Hash_from_str(hex) == hex_to_hash(hex)

\* one digit of the {:x} format
LowerHexDigit(n) == IF n < 10 THEN 48 + n ELSE 97 + (n - 10)

\* write!(f, "{:x}", byte): no zero padding
FormatByte_unpadded(byte) ==
    IF byte < 16 THEN <<LowerHexDigit(byte)>>
    ELSE <<LowerHexDigit(byte \div 16), LowerHexDigit(byte % 16)>>

\* write!(f, "{:02x}", byte)
FormatByte(byte) == <<LowerHexDigit(byte \div 16), LowerHexDigit(byte % 16)>>

\* impl Display for Hash
RECURSIVE Hash_to_string(_)
Hash_to_string(h) ==
    IF h = <<>> THEN <<>> ELSE FormatByte(Head(h)) \o Hash_to_string(Tail(h))

----------------------------------------------------------------------------
(* Machine integers.  A usize (64 bits) or u32 value is a sequence of       *)
(* 16-bit limbs, least significant first, so that overflow is the carry out *)
(* of the last limb.                                                        *)

LimbBase == 65536

USIZE_LIMBS == 4

\* the machine integer of `limbs` limbs holding the small number n
WordOf(n, limbs) ==
    [i \in 1..limbs |-> IF i = 1 THEN n % LimbBase
                        ELSE IF i = 2 THEN n \div LimbBase ELSE 0]

\* w * k + carry, limb by limb: the limbs kept and the carry out
RECURSIVE MulAdd(_, _, _)
MulAdd(w, k, carry) ==
    IF w = <<>> THEN [limbs |-> <<>>, carry |-> carry]
    ELSE LET t == Head(w) * k + carry
             r == MulAdd(Tail(w), k, t \div LimbBase)
         IN  [limbs |-> <<t % LimbBase>> \o r.limbs, carry |-> r.carry]

\* usize::checked_mul
checked_mul(value, k) ==
    LET r == MulAdd(value, k, 0)
    IN  IF r.carry # 0 THEN None ELSE Some(r.limbs)

\* usize::checked_add
checked_add(value, a) ==
    LET r == MulAdd(value, 1, a)
    IN  IF r.carry # 0 THEN None ELSE Some(r.limbs)

----------------------------------------------------------------------------
(* Object headers *)

COMMIT_HEADER == <<99, 111, 109, 109, 105, 116, 32>>

TREE_HEADER == <<116, 114, 101, 101, 32>>

BLOB_HEADER == <<98, 108, 111, 98, 32>>

\* fn decimal_char_value(decimal_char: u8) -> Option<u8>
decimal_char_value(decimal_char) ==
    IF decimal_char >= 48 /\ decimal_char <= 57
    THEN Some(decimal_char - 48) ELSE None

\* the loop of parse_decimal from `value` on
RECURSIVE ParseDecimalFrom(_, _)
ParseDecimalFrom(value, decimal_str) ==
    IF decimal_str = <<>> THEN Some(value)
    ELSE LET char_value == decimal_char_value(Head(decimal_str))
         IN  IF ~char_value.some THEN None
             ELSE LET m == checked_mul(value, 10)
                  IN  IF ~m.some THEN None
                      ELSE LET a == checked_add(m.val, char_value.val)
                           IN  IF ~a.some THEN None
                               ELSE ParseDecimalFrom(a.val, Tail(decimal_str))

\* fn parse_decimal(decimal_str: &[u8]) -> Option<usize>
parse_decimal(decimal_str) ==
    ParseDecimalFrom(WordOf(0, USIZE_LIMBS), decimal_str)

\* slice.iter().position(|element| *element == delimiter), 0 when absent
RECURSIVE Position(_, _)
Position(slice, delimiter) ==
    IF slice = <<>> THEN 0
    ELSE IF Head(slice) = delimiter THEN 1
    ELSE LET p == Position(Tail(slice), delimiter)
         IN  IF p = 0 THEN 0 ELSE p + 1

\* fn split_once(slice: &[T], delimiter: T) -> Option<(&[T], &[T])>
split_once(slice, delimiter) ==
    LET index == Position(slice, delimiter)
    IN  IF index = 0 THEN None
        ELSE Some(<<SubSeq(slice, 1, index - 1), Drop(slice, index)>>)

\* slice.strip_prefix(prefix)
strip_prefix(slice, prefix) ==
    IF StartsWith(slice, prefix) THEN Some(Drop(slice, Len(prefix))) ELSE None

\* check_header without the comparison of the size with the body
check_header_unsized(obj, hdr) ==
    LET stripped == strip_prefix(obj, hdr)
    IN  IF ~stripped.some THEN None
        ELSE LET split == split_once(stripped.val, 0)
             IN  IF ~split.some THEN None
                 ELSE LET size == parse_decimal(split.val[1])
                      IN  IF ~size.some THEN None
                          ELSE Some(split.val[2])

\* fn check_header<'a>(object: &'a [u8], header: &[u8]) -> Option<&'a [u8]>
check_header(obj, hdr) ==
    LET stripped == strip_prefix(obj, hdr)
    IN  IF ~stripped.some THEN None
        ELSE LET split == split_once(stripped.val, 0)
             IN  IF ~split.some THEN None
                 ELSE LET size == parse_decimal(split.val[1])
                      IN  IF ~size.some THEN None
                          ELSE IF WordOf(Len(split.val[2]), USIZE_LIMBS) # size.val
                               THEN None
                          ELSE Some(split.val[2])

----------------------------------------------------------------------------
(* Text: String::from_utf8 succeeds exactly on well-formed UTF-8 *)

IsCont(s, i) == i <= Len(s) /\ s[i] >= 128 /\ s[i] <= 191

InRange(s, i, lo, hi) == i <= Len(s) /\ s[i] >= lo /\ s[i] <= hi

\* the length of the well-formed UTF-8 sequence that starts s, 0 if none does
Utf8SeqLen(s) ==
    LET b == s[1]
    IN  IF b <= 127 THEN 1
        ELSE IF b >= 194 /\ b <= 223 THEN (IF IsCont(s, 2) THEN 2 ELSE 0)
        ELSE IF b = 224 THEN (IF InRange(s, 2, 160, 191) /\ IsCont(s, 3) THEN 3 ELSE 0)
        ELSE IF b = 237 THEN (IF InRange(s, 2, 128, 159) /\ IsCont(s, 3) THEN 3 ELSE 0)
        ELSE IF b >= 225 /\ b <= 239 THEN (IF IsCont(s, 2) /\ IsCont(s, 3) THEN 3 ELSE 0)
        ELSE IF b = 240
             THEN (IF InRange(s, 2, 144, 191) /\ IsCont(s, 3) /\ IsCont(s, 4) THEN 4 ELSE 0)
        ELSE IF b >= 241 /\ b <= 243
             THEN (IF IsCont(s, 2) /\ IsCont(s, 3) /\ IsCont(s, 4) THEN 4 ELSE 0)
        ELSE IF b = 244
             THEN (IF InRange(s, 2, 128, 143) /\ IsCont(s, 3) /\ IsCont(s, 4) THEN 4 ELSE 0)
        ELSE 0

RECURSIVE Utf8Valid(_)
Utf8Valid(s) ==
    IF s = <<>> THEN TRUE
    ELSE LET n == Utf8SeqLen(s)
         IN  IF n = 0 THEN FALSE ELSE Utf8Valid(Drop(s, n))

\* String::from_utf8(bytes.to_vec()).ok()
from_utf8(bytes) == IF Utf8Valid(bytes) THEN Some(bytes) ELSE None

----------------------------------------------------------------------------
(* Commit objects *)

TREE_LINE_PREFIX == <<116, 114, 101, 101, 32>>

PARENT_LINE_PREFIX == <<112, 97, 114, 101, 110, 116, 32>>

AUTHOR_LINE_PREFIX == <<97, 117, 116, 104, 111, 114, 32>>

COMMITTER_LINE_PREFIX == <<99, 111, 109, 109, 105, 116, 116, 101, 114, 32>>

\* the parent loop with parents.insert(0, parent) for parents.push(parent)
RECURSIVE ParseParents_prepending(_, _)
ParseParents_prepending(obj, parents) ==
    LET object_rest == strip_prefix(obj, PARENT_LINE_PREFIX)
    IN  IF ~object_rest.some THEN Some([parents |-> parents, object |-> obj])
        ELSE LET split == split_once(object_rest.val, 10)
             IN  IF ~split.some THEN None
                 ELSE LET parent == hex_to_hash(split.val[1])
                      IN  IF ~parent.some THEN None
                          ELSE ParseParents_prepending(split.val[2],
                                                       <<parent.val>> \o parents)

\* while let Some(object_rest) = object.strip_prefix(PARENT_LINE_PREFIX) { .. }
RECURSIVE ParseParents(_, _)
ParseParents(obj, parents) ==
    LET object_rest == strip_prefix(obj, PARENT_LINE_PREFIX)
    IN  IF ~object_rest.some THEN Some([parents |-> parents, object |-> obj])
        ELSE LET split == split_once(object_rest.val, 10)
             IN  IF ~split.some THEN None
                 ELSE LET parent == hex_to_hash(split.val[1])
                      IN  IF ~parent.some THEN None
                          ELSE ParseParents(split.val[2], Append(parents, parent.val))

\* a line of text: strip the prefix, split at the newline, decode as UTF-8;
\* the text and the rest of the object
ParseTextLine(obj, prefix) ==
    LET stripped == strip_prefix(obj, prefix)
    IN  IF ~stripped.some THEN None
        ELSE LET split == split_once(stripped.val, 10)
             IN  IF ~split.some THEN None
                 ELSE LET text == from_utf8(split.val[1])
                      IN  IF ~text.some THEN None
                          ELSE Some([text |-> text.val, object |-> split.val[2]])

\* parse_commit from the author line on
ParseCommitTail(tree, parents, obj) ==
    LET author == ParseTextLine(obj, AUTHOR_LINE_PREFIX)
    IN  IF ~author.some THEN None
        ELSE LET committer == ParseTextLine(author.val.object, COMMITTER_LINE_PREFIX)
             IN  IF ~committer.some THEN None
                 ELSE LET body == strip_prefix(committer.val.object, <<10>>)
                      IN  IF ~body.some THEN None
                          ELSE LET message == from_utf8(body.val)
                               IN  IF ~message.some THEN None
                                   ELSE Some([_tree |-> tree,
                                              _parents |-> parents,
                                              _author |-> author.val.text,
                                              _committer |-> committer.val.text,
                                              _message |-> message.val])

\* fn parse_commit(object: &[u8]) -> Option<Commit>
parse_commit(obj) ==
    LET checked == check_header(obj, COMMIT_HEADER)
    IN  IF ~checked.some THEN None
        ELSE LET stripped == strip_prefix(checked.val, TREE_LINE_PREFIX)
             IN  IF ~stripped.some THEN None
                 ELSE LET split == split_once(stripped.val, 10)
                      IN  IF ~split.some THEN None
                          ELSE LET tree == hex_to_hash(split.val[1])
                               IN  IF ~tree.some THEN None
                                   ELSE LET loop == ParseParents(split.val[2], <<>>)
                                        IN  IF ~loop.some THEN None
                                            ELSE ParseCommitTail(tree.val,
                                                                 loop.val.parents,
                                                                 loop.val.object)

----------------------------------------------------------------------------
(* Tree objects *)

MODE_DIRECTORY == <<52, 48, 48, 48, 48>>

MODE_FILE == <<49, 48, 48, 54, 52, 52>>

MODE_EXECUTABLE == <<49, 48, 48, 55, 53, 53>>

MODE_SYMLINK == <<49, 50, 48, 48, 48, 48>>

\* the match on the mode that also takes the zero-padded directory mode
MatchMode_padded(mode) ==
    IF mode = MODE_DIRECTORY \/ mode = <<48>> \o MODE_DIRECTORY THEN Some("Directory")
    ELSE IF mode = MODE_FILE THEN Some("File")
    ELSE IF mode = MODE_EXECUTABLE THEN Some("File")
    ELSE IF mode = MODE_SYMLINK THEN Some("SymbolicLink")
    ELSE None

\* let mode = match mode { b"40000" => Mode::Directory, .., _ => return None }
MatchMode(mode) ==
    IF mode = MODE_DIRECTORY THEN Some("Directory")
    ELSE IF mode = MODE_FILE THEN Some("File")
    ELSE IF mode = MODE_EXECUTABLE THEN Some("File")
    ELSE IF mode = MODE_SYMLINK THEN Some("SymbolicLink")
    ELSE None

\* the entry loop that stops at a record it cannot read and keeps the rest
RECURSIVE ParseEntries_lenient(_, _)
ParseEntries_lenient(obj, entries) ==
    IF obj = <<>> THEN Some(entries)
    ELSE LET mode_split == split_once(obj, 32)
         IN  IF ~mode_split.some THEN Some(entries)
             ELSE LET mode == MatchMode(mode_split.val[1])
                  IN  IF ~mode.some THEN None
                      ELSE LET name_split == split_once(mode_split.val[2], 0)
                           IN  IF ~name_split.some THEN Some(entries)
                               ELSE LET name == from_utf8(name_split.val[1])
                                        object_rest == name_split.val[2]
                                    IN  IF ~name.some THEN None
                                        ELSE IF Len(object_rest) < HASH_BYTES
                                             THEN Some(entries)
                                        ELSE ParseEntries_lenient(
                                                Drop(object_rest, HASH_BYTES),
                                                Append(entries,
                                                    [mode |-> mode.val,
                                                     name |-> name.val,
                                                     hash |-> SubSeq(object_rest, 1, HASH_BYTES)]))

\* while !object.is_empty() { .. entries.push(TreeEntry { mode, name, hash }) }
RECURSIVE ParseEntries(_, _)
ParseEntries(obj, entries) ==
    IF obj = <<>> THEN Some(entries)
    ELSE LET mode_split == split_once(obj, 32)
         IN  IF ~mode_split.some THEN None
             ELSE LET mode == MatchMode(mode_split.val[1])
                  IN  IF ~mode.some THEN None
                      ELSE LET name_split == split_once(mode_split.val[2], 0)
                           IN  IF ~name_split.some THEN None
                               ELSE LET name == from_utf8(name_split.val[1])
                                        object_rest == name_split.val[2]
                                    IN  IF ~name.some THEN None
                                        ELSE IF Len(object_rest) < HASH_BYTES THEN None
                                        ELSE ParseEntries(
                                                Drop(object_rest, HASH_BYTES),
                                                Append(entries,
                                                    [mode |-> mode.val,
                                                     name |-> name.val,
                                                     hash |-> SubSeq(object_rest, 1, HASH_BYTES)]))

\* fn parse_tree(object: &[u8]) -> Option<Tree>
parse_tree(obj) ==
    IF obj = <<>> THEN Some(<<>>)
    ELSE LET checked == check_header(obj, TREE_HEADER)
         IN  IF ~checked.some THEN None
             ELSE ParseEntries(checked.val, <<>>)

----------------------------------------------------------------------------
(* Loose objects and the lookup of a path.  The objects directory is a     *)
(* function from the hashes that have a file to the file: whether it       *)
(* opens and inflates, and the bytes it inflates to.                       *)

\* Err(Error::new(ErrorKind::Other, message)), or the error of a failed read
Err(e) == [some |-> FALSE, err |-> e]

\* the read_object that reports a hash without a file
read_object_strict(objects, h) ==
    IF h \notin DOMAIN objects THEN Err("io")
    ELSE IF ~objects[h].inflates THEN Err("io")
    ELSE Some(objects[h].data)

\* fn read_object(hash: Hash) -> io::Result<Vec<u8>>
read_object(objects, h) ==
    IF h \notin DOMAIN objects THEN Some(<<>>)
    ELSE IF ~objects[h].inflates THEN Err("io")
    ELSE Some(objects[h].data)

\* fn read_tree(hash: Hash) -> io::Result<Tree>
read_tree(objects, h) ==
    LET obj == read_object(objects, h)
    IN  IF ~obj.some THEN obj
        ELSE LET entries == parse_tree(obj.val)
             IN  IF ~entries.some THEN Err("Malformed tree object") ELSE entries

\* fn read_blob(hash: Hash) -> io::Result<Blob>
read_blob(objects, h) ==
    LET obj == read_object(objects, h)
    IN  IF ~obj.some THEN obj
        ELSE LET bytes == check_header(obj.val, BLOB_HEADER)
             IN  IF ~bytes.some THEN Err("Malformed blob object") ELSE bytes

\* path.split('/'): the segments between the slashes, at least one
RECURSIVE Split(_)
Split(s) ==
    LET halves == split_once(s, 47)
    IN  IF ~halves.some THEN <<s>> ELSE <<halves.val[1]>> \o Split(halves.val[2])

\* the last entry of that name
FindEntry_last(entries, name) ==
    LET found == { i \in 1..Len(entries) : entries[i].name = name }
    IN  IF found = {} THEN None
        ELSE Some(entries[CHOOSE i \in found : \A j \in found : j <= i])

\* tree.0.iter().find(|entry| entry.name == name)
FindEntry(entries, name) ==
    LET found == { i \in 1..Len(entries) : entries[i].name = name }
    IN  IF found = {} THEN None
        ELSE Some(entries[CHOOSE i \in found : \A j \in found : i <= j])

----------------------------------------------------------------------------
(* Head resolution *)

REF_PREFIX == <<114, 101, 102, 58, 32, 114, 101, 102, 115, 47, 104, 101, 97, 100, 115, 47>>

\* the length in bytes of the White_Space character that ends s, 0 if none
\* does: U+0009..U+000D, U+0020, U+0085, U+00A0, U+1680, U+2000..U+200A,
\* U+2028, U+2029, U+202F, U+205F, U+3000
TrailingWhitespace(s) ==
    LET n == Len(s)
    IN  IF n = 0 THEN 0
        ELSE IF s[n] \in {9, 10, 11, 12, 13, 32} THEN 1
        ELSE IF n >= 2 /\ s[n - 1] = 194 /\ s[n] \in {133, 160} THEN 2
        ELSE IF n >= 3 /\ s[n - 2] = 225 /\ s[n - 1] = 154 /\ s[n] = 128 THEN 3
        ELSE IF n >= 3 /\ s[n - 2] = 226 /\ s[n - 1] = 128
                       /\ s[n] \in (128..138) \cup {168, 169, 175} THEN 3
        ELSE IF n >= 3 /\ s[n - 2] = 226 /\ s[n - 1] = 129 /\ s[n] = 159 THEN 3
        ELSE IF n >= 3 /\ s[n - 2] = 227 /\ s[n - 1] = 128 /\ s[n] = 128 THEN 3
        ELSE 0

\* str::trim_end
RECURSIVE trim_end(_)
trim_end(s) ==
    LET n == TrailingWhitespace(s)
    IN  IF n = 0 THEN s ELSE trim_end(SubSeq(s, 1, Len(s) - n))

\* fs::read_to_string of a file given as Some(bytes), or None when absent
read_to_string(f) ==
    IF ~f.some THEN None
    ELSE IF ~Utf8Valid(f.val) THEN None
    ELSE Some(f.val)

\* the file of that name under .git/refs/heads/, None when there is none
RefFile(files, branch) ==
    IF branch \in DOMAIN files THEN Some(files[branch]) ELSE None

Commit(h) == [tag |-> "Commit", hash |-> h]

Branch(b) == [tag |-> "Branch", branch |-> b]

\* fn get_head() -> io::Result<Head>
get_head(head_contents) ==
    LET read == read_to_string(head_contents)
    IN  IF ~read.some THEN None
        ELSE LET hash_contents == trim_end(read.val)
                 branch == strip_prefix(hash_contents, REF_PREFIX)
             IN  IF branch.some THEN Some(Branch(branch.val))
                 ELSE LET h == Hash_from_str(hash_contents)
                      IN  IF ~h.some THEN None ELSE Some(Commit(h.val))

\* fn get_hash(&self) -> io::Result<Hash>
get_hash(self, files) ==
    IF self.tag = "Commit" THEN Some(self.hash)
    ELSE LET read == read_to_string(RefFile(files, self.branch))
         IN  IF ~read.some THEN None
             ELSE Hash_from_str(trim_end(read.val))

----------------------------------------------------------------------------
(* The pack index reader (CheckHashBuckets).  A u32 is two 16-bit limbs,   *)
(* least significant first.                                                *)

U32_LIMBS == 2

\* 1 << u8::BITS, the number of counters
FANOUT_ENTRIES == 256

INDEX_MAGIC == <<255, 116, 79, 99>>

INDEX_VERSION == 2

\* stream.read_exact(&mut bytes) of n bytes at position p: the bytes, or
\* None (UnexpectedEof) when fewer are left
read_bytes(f, p, n) ==
    IF p + n > Len(f) THEN None ELSE Some(SubSeq(f, p + 1, p + n))

\* u32::from_be_bytes
from_be_bytes(b) == <<b[3] * 256 + b[4], b[1] * 256 + b[2]>>

\* fn read_u32(stream) -> io::Result<u32>
read_u32(f, p) ==
    LET bytes == read_bytes(f, p, 4)
    IN  IF ~bytes.some THEN None ELSE Some(from_be_bytes(bytes.val))

\* fn read_hash(stream) -> io::Result<Hash>
read_hash(f, p) == read_bytes(f, p, HASH_BYTES)

\* a < b on machine integers of the same width
RECURSIVE WordLess(_, _)
WordLess(a, b) ==
    IF a = <<>> THEN FALSE
    ELSE LET n == Len(a)
         IN  IF a[n] # b[n] THEN a[n] < b[n]
             ELSE WordLess(SubSeq(a, 1, n - 1), SubSeq(b, 1, n - 1))

\* the subtraction left out: the counter itself taken as the bucket's size
WordSub_keeping(a, b, borrow) == [limbs |-> a, borrow |-> 0]

\* a - b - borrow, limb by limb: the limbs of the wrapped difference and
\* the borrow out (1 when a < b)
RECURSIVE WordSub(_, _, _)
WordSub(a, b, borrow) ==
    IF a = <<>> THEN [limbs |-> <<>>, borrow |-> borrow]
    ELSE LET t == Head(a) - Head(b) - borrow
             r == WordSub(Tail(a), Tail(b), IF t < 0 THEN 1 ELSE 0)
         IN  [limbs |-> <<t % LimbBase>> \o r.limbs, borrow |-> r.borrow]

\* hash >= previous_hash: the comparison that lets a repeated hash pass
RECURSIVE HashGreater_or_equal(_, _)
HashGreater_or_equal(a, b) ==
    IF a = <<>> THEN TRUE
    ELSE IF Head(a) # Head(b) THEN Head(a) > Head(b)
    ELSE HashGreater_or_equal(Tail(a), Tail(b))

\* hash > previous_hash, as #[derive(PartialOrd)] compares the byte arrays
RECURSIVE HashGreater(_, _)
HashGreater(a, b) ==
    IF a = <<>> THEN FALSE
    ELSE IF Head(a) # Head(b) THEN Head(a) > Head(b)
    ELSE HashGreater(Tail(a), Tail(b))

\* the 256 read_u32 calls of the fanout loop from position p: the counters,
\* or None when the file ends before the last of them
ReadCounters(f, p) ==
    IF p + 4 * FANOUT_ENTRIES > Len(f) THEN None
    ELSE Some([i \in 1..FANOUT_ENTRIES |->
                  from_be_bytes(SubSeq(f, p + 4 * (i - 1) + 1, p + 4 * i))])

----------------------------------------------------------------------------
(* Inputs of the hash codec runs *)

\* texts handed to from_str are at most this long
MaxHexLen == 42

\* the byte positions of a Hash that are varied over all byte values
ProbeHashPositions == {1, 2, HASH_BYTES - 1, HASH_BYTES}

FillBytes == {0, 171}

Hashes ==
    { [i \in 1..HASH_BYTES |-> IF i = p THEN b ELSE f] :
        p \in ProbeHashPositions, b \in Byte, f \in FillBytes }

\* an all-hex text of n characters
HexRun(n) == [i \in 1..n |-> LowerHexDigit((i * 7) % 16)]

ProbeTextPositions == {1, 2, 21, 2 * HASH_BYTES - 1, 2 * HASH_BYTES}

HexTexts ==
    { HexRun(n) : n \in 0..MaxHexLen }
      \cup { [HexRun(2 * HASH_BYTES) EXCEPT ![p] = c] :
                p \in ProbeTextPositions, c \in Byte }
      \cup { [HexRun(2 * HASH_BYTES - 2) EXCEPT ![p] = c] :
                p \in {1}, c \in {65, 71, 103} }
      \cup { <<120, 121, 122>> }

HexIdle == hash = None /\ hex_hash = <<>> /\ parsed = None

ObjectIdle == header = <<>> /\ object = <<>> /\ written = <<>> /\ ret = None

HeadIdle == head_file = None /\ ref_files = <<>> /\ head = None /\ head_hash = None

WalkIdle ==
    /\ store = <<>>
    /\ path = <<>>
    /\ names = <<>>
    /\ walk_hash = <<>>
    /\ walk_tree = None
    /\ matched = <<>>
    /\ reads = <<>>
    /\ blob = None

IndexIdle ==
    /\ overflow_checks = FALSE
    /\ file = None
    /\ pos = 0
    /\ cumulative_objects = <<>>
    /\ previous_objects = <<0, 0>>
    /\ first_byte = 0
    /\ range = [start |-> <<0, 0>>, end |-> <<0, 0>>]
    /\ previous_hash = None
    /\ outcome = "running"

----------------------------------------------------------------------------
(* The hash codec run: hash.to_string(), then Hash::from_str on the text *)

HexInit ==
    /\ WalkIdle
    /\ ObjectIdle
    /\ HeadIdle
    /\ IndexIdle
    /\ parsed = None
    /\ \/ /\ pc = "to_string"
          /\ hash \in { Some(h) : h \in Hashes }
          /\ hex_hash = <<>>
       \/ /\ pc = "from_str"
          /\ hash = None
          /\ hex_hash \in HexTexts

to_string ==
    /\ pc = "to_string"
    /\ hex_hash' = Hash_to_string(hash.val)
    /\ pc' = "from_str"
    /\ UNCHANGED <<hash, parsed, objectVars, headVars, indexVars, walkVars>>

from_str ==
    /\ pc = "from_str"
    /\ parsed' = Hash_from_str(hex_hash)
    /\ pc' = "done"
    /\ UNCHANGED <<hash, hex_hash, objectVars, headVars, indexVars, walkVars>>

HexNext == to_string \/ from_str

SpecHex == HexInit /\ [][HexNext]_vars

----------------------------------------------------------------------------
(* Claims about the hash codec *)

IsLowerHex(c) == (c >= 48 /\ c <= 57) \/ (c >= 97 /\ c <= 102)

IsHexAnyCase(c) == IsLowerHex(c) \/ (c >= 65 /\ c <= 70)

ToLower(c) == IF c >= 65 /\ c <= 90 THEN c + 32 ELSE c

\* C1: decoding the text that Display produces for a Hash gives back that
\* Hash, and the text is exactly 40 characters, each 0-9 or a-f.
C1_RoundTrip ==
    (hash.some /\ pc \in {"from_str", "done"}) =>
        /\ Len(hex_hash) = 40
        /\ \A i \in 1..Len(hex_hash) : IsLowerHex(hex_hash[i])
        /\ pc = "done" => parsed = Some(hash.val)

C1_Witness ==
    /\ pc = "done"
    /\ hash.some
    /\ hash.val[1] = 10
    /\ hash.val[2] = 171
    /\ parsed = hash

\* C2: hex_to_hash fails on every text whose length is not 40 and on every
\* text holding a character that is not a hexadecimal digit.
C2_Rejects ==
    (pc = "done" /\ (Len(hex_hash) # 40
                       \/ \E i \in 1..Len(hex_hash) : ~IsHexAnyCase(hex_hash[i])))
        => parsed = None

C2_Witness ==
    /\ pc = "done"
    /\ Len(hex_hash) = 42
    /\ \A i \in 1..Len(hex_hash) : IsLowerHex(hex_hash[i])
    /\ parsed = None

\* C3 as stated: a text of 40 hexadecimal characters decodes whatever the
\* case of its letters, to the hash of its lowercase form.
C3_CaseInsensitive ==
    (pc = "done" /\ Len(hex_hash) = 40
                 /\ \A i \in 1..Len(hex_hash) : IsHexAnyCase(hex_hash[i]))
        => /\ parsed.some
           /\ parsed = hex_to_hash([i \in 1..Len(hex_hash) |-> ToLower(hex_hash[i])])

\* C3 amended: hex_to_hash succeeds exactly on the texts of 40 characters
\* that are each 0-9 or lowercase a-f; an uppercase A-F is rejected.
C3_LowercaseOnly ==
    pc = "done" =>
        (parsed.some <=> (Len(hex_hash) = 40
                            /\ \A i \in 1..Len(hex_hash) : IsLowerHex(hex_hash[i])))

C3_Witness ==
    /\ pc = "done"
    /\ Len(hex_hash) = 40
    /\ \A i \in 1..Len(hex_hash) : IsHexAnyCase(hex_hash[i])
    /\ \E i \in 1..Len(hex_hash) : hex_hash[i] \in 65..70
    /\ parsed = None

----------------------------------------------------------------------------
(* Inputs of the check_header runs *)

\* object bodies are at most this long
MaxBodyLen == 3

BodyBytes == {0, 49, 97}

RECURSIVE SeqsUpTo(_, _)
SeqsUpTo(S, n) ==
    IF n = 0 THEN {<<>>}
    ELSE LET shorter == SeqsUpTo(S, n - 1)
         IN  shorter \cup { <<x>> \o s : x \in S, s \in { t \in shorter : Len(t) = n - 1 } }

Bodies == SeqsUpTo(BodyBytes, MaxBodyLen)

\* the ASCII text of a sequence of decimal digits
Digits(ds) == [i \in 1..Len(ds) |-> 48 + ds[i]]

\* the decimal text of n, as git writes a size
RECURSIVE Decimal(_)
Decimal(n) == IF n < 10 THEN <<48 + n>> ELSE Decimal(n \div 10) \o <<48 + (n % 10)>>

\* usize::MAX = 2^64 - 1 in decimal digits
UsizeMaxDigits == <<1,8,4,4,6,7,4,4,0,7,3,7,0,9,5,5,1,6,1,5>>

\* the decimal text of 2^64 + n, for n < 4
TwoTo64Plus(n) == Digits([UsizeMaxDigits EXCEPT ![20] = 6 + n])

SizeFields(body) ==
    { Decimal(Len(body)), Decimal(Len(body) + 1), Decimal(Len(body) + 10),
      <<48>> \o Decimal(Len(body)),
      Digits([i \in 1..21 |-> 0]) \o Decimal(Len(body)),
      <<>>, <<49, 97>>, <<45, 49>>, <<43, 48>>, <<32, 48>>, <<48, 32>>,
      Digits(UsizeMaxDigits), TwoTo64Plus(Len(body) % 4),
      Digits([i \in 1..20 |-> 9]) }

TypePrefixes ==
    { COMMIT_HEADER, TREE_HEADER, BLOB_HEADER,
      SubSeq(COMMIT_HEADER, 1, Len(COMMIT_HEADER) - 1),
      <<>>,
      [COMMIT_HEADER EXCEPT ![1] = 67] }

HeaderObjects ==
    { prefix \o size \o sep \o body :
        prefix \in TypePrefixes, size \in UNION { SizeFields(b) : b \in Bodies },
        sep \in { <<0>>, <<>> }, body \in Bodies }

----------------------------------------------------------------------------
(* The check_header run *)

HeaderInit ==
    /\ WalkIdle
    /\ HexIdle
    /\ HeadIdle
    /\ IndexIdle
    /\ pc = "check_header"
    /\ header \in { COMMIT_HEADER, TREE_HEADER, BLOB_HEADER }
    /\ object \in HeaderObjects
    /\ written = <<>>
    /\ ret = None

call_check_header ==
    /\ pc = "check_header"
    /\ ret' = check_header(object, header)
    /\ pc' = "done"
    /\ UNCHANGED <<hexVars, walkVars, headVars, indexVars, header, object, written>>

HeaderNext == call_check_header

SpecHeader == HeaderInit /\ [][HeaderNext]_vars

----------------------------------------------------------------------------
(* Claims about check_header *)

IsDigit(c) == c >= 48 /\ c <= 57

AllDigits(s) == \A i \in 1..Len(s) : IsDigit(s[i])

RECURSIVE StripZeros(_)
StripZeros(s) == IF s # <<>> /\ Head(s) = 48 THEN StripZeros(Tail(s)) ELSE s

RECURSIVE DigitsValue(_)
DigitsValue(s) ==
    IF s = <<>> THEN 0
    ELSE DigitsValue(SubSeq(s, 1, Len(s) - 1)) * 10 + (s[Len(s)] - 48)

\* the number a text of digits denotes; -1 stands for one of 10 digits or
\* more (after its leading zeros), which is no length of a modelled body
DecimalValue(s) ==
    IF Len(StripZeros(s)) > 9 THEN -1 ELSE DigitsValue(StripZeros(s))

\* whether the number a text of digits denotes is at most usize::MAX
FitsUsize(s) ==
    LET t == StripZeros(s)
        m == Digits(UsizeMaxDigits)
    IN  \/ Len(t) < Len(m)
        \/ /\ Len(t) = Len(m)
           /\ \/ t = m
              \/ \E i \in 1..Len(m) :
                    /\ t[i] < m[i]
                    /\ \A j \in 1..(i - 1) : t[j] = m[j]

\* the payload after the expected type literal
AfterType == Drop(object, Len(header))

HasNul(s) == \E i \in 1..Len(s) : s[i] = 0

FirstNul(s) == CHOOSE i \in 1..Len(s) : s[i] = 0 /\ \A j \in 1..(i - 1) : s[j] # 0

LengthField == SubSeq(AfterType, 1, FirstNul(AfterType) - 1)

AfterNul == Drop(AfterType, FirstNul(AfterType))

\* C4: check_header succeeds only when the payload starts with the type
\* literal and its space and the decimal length before the first NUL is
\* exactly the number of bytes after that NUL, and then returns those bytes;
\* a wrong type or a body shorter or longer than declared fails.  (The value
\* of a field is that of its digits: no digits denote 0, see C5.)
C4_HeaderChecked ==
    (pc = "done" /\ ret.some) =>
        /\ StartsWith(object, header)
        /\ header[Len(header)] = 32
        /\ HasNul(AfterType)
        /\ AllDigits(LengthField)
        /\ DecimalValue(LengthField) = Len(AfterNul)
        /\ ret.val = AfterNul

C4_Witness ==
    /\ pc = "done"
    /\ header = COMMIT_HEADER
    /\ ret.some
    /\ Len(ret.val) = 3
    /\ ret.val[2] = 0

\* C5 as stated: the length field is a decimal number: when check_header
\* succeeds the field holds at least one digit, only digits, and a value
\* that fits a usize.
C5_LengthIsDecimal ==
    (pc = "done" /\ ret.some) =>
        /\ LengthField # <<>>
        /\ AllDigits(LengthField)
        /\ FitsUsize(LengthField)

----------------------------------------------------------------------------
(* Inputs of the parse_commit runs: a commit body is written as a sequence *)
(* of lines, taken from a well-formed commit by dropping, repeating,       *)
(* swapping or replacing one line.                                         *)

\* a written commit has at most this many parent lines
MaxParents == 2

HashA == [i \in 1..HASH_BYTES |-> 171]

HashB == [i \in 1..HASH_BYTES |-> i]

HashC == [i \in 1..HASH_BYTES |-> 255 - i]

ToUpper(c) == IF c >= 97 /\ c <= 122 THEN c - 32 ELSE c

UpperText(t) == [i \in 1..Len(t) |-> ToUpper(t[i])]

TreeLine == TREE_LINE_PREFIX \o Hash_to_string(HashA) \o <<10>>

TreeLineUpper == TREE_LINE_PREFIX \o UpperText(Hash_to_string(HashA)) \o <<10>>

TreeLineShort ==
    TREE_LINE_PREFIX \o SubSeq(Hash_to_string(HashA), 1, 2 * HASH_BYTES - 2) \o <<10>>

ParentLine(h) == PARENT_LINE_PREFIX \o Hash_to_string(h) \o <<10>>

ParentLineBad == PARENT_LINE_PREFIX \o <<120, 121, 122, 10>>

AuthorLine == AUTHOR_LINE_PREFIX \o <<65, 32, 60, 97, 62, 32, 49, 10>>

\* an author name in Latin-1: e-acute is the single byte 233
AuthorLineLatin1 == AUTHOR_LINE_PREFIX \o <<233, 10>>

CommitterLine == COMMITTER_LINE_PREFIX \o <<67, 195, 169, 10>>

BlankLine == <<10>>

TextLine == <<109, 115, 103, 10>>

Messages ==
    { <<>>, <<TextLine>>, <<TextLine, BlankLine, TextLine>>,
      <<ParentLine(HashB)>>, <<<<109>>>>, <<<<255, 10>>>> }

Skeletons ==
    { <<TreeLine>> \o parents \o <<AuthorLine, CommitterLine, BlankLine>> \o message :
        parents \in SeqsUpTo({ParentLine(HashB), ParentLine(HashC)}, MaxParents),
        message \in Messages }

DropAt(L, i) == SubSeq(L, 1, i - 1) \o SubSeq(L, i + 1, Len(L))

RepeatAt(L, i) == SubSeq(L, 1, i) \o SubSeq(L, i, Len(L))

SwapAt(L, i) == [L EXCEPT ![i] = L[i + 1], ![i + 1] = L[i]]

Replacements == { TreeLineUpper, TreeLineShort, ParentLineBad, AuthorLineLatin1 }

Mutations(L) ==
    {L} \cup { DropAt(L, i) : i \in 1..Len(L) }
        \cup { RepeatAt(L, i) : i \in 1..Len(L) }
        \cup { SwapAt(L, i) : i \in 1..(Len(L) - 1) }
        \cup { [L EXCEPT ![i] = x] : i \in 1..Len(L), x \in Replacements }

CommitLineLists == UNION { Mutations(L) : L \in Skeletons }

\* the object git writes for a body: type, decimal size, NUL, body
WithHeader(hdr, size, body) == hdr \o Decimal(size) \o <<0>> \o body

----------------------------------------------------------------------------
(* The parse_commit run *)

CommitInit ==
    /\ WalkIdle
    /\ HexIdle
    /\ HeadIdle
    /\ IndexIdle
    /\ pc = "parse_commit"
    /\ header = COMMIT_HEADER
    /\ written \in CommitLineLists
    /\ \E extra \in {0, 1} :
          object = WithHeader(COMMIT_HEADER, Len(Concat(written)) + extra,
                              Concat(written))
    /\ ret = None

call_parse_commit ==
    /\ pc = "parse_commit"
    /\ ret' = parse_commit(object)
    /\ pc' = "done"
    /\ UNCHANGED <<hexVars, walkVars, headVars, indexVars, header, object, written>>

CommitNext == call_parse_commit

SpecCommit == CommitInit /\ [][CommitNext]_vars

----------------------------------------------------------------------------
(* Claims about parse_commit *)

\* a line is `prefix`, 40 hex digits and a newline; strict: lowercase only
IsHashLine(prefix, line, strict) ==
    /\ Len(line) = Len(prefix) + 2 * HASH_BYTES + 1
    /\ StartsWith(line, prefix)
    /\ line[Len(line)] = 10
    /\ \A i \in (Len(prefix) + 1)..(Len(line) - 1) :
          IF strict THEN IsLowerHex(line[i]) ELSE IsHexAnyCase(line[i])

\* a line is `prefix`, text and the line's only newline; strict: UTF-8 text
IsTextLine(prefix, line, strict) ==
    /\ StartsWith(line, prefix)
    /\ line[Len(line)] = 10
    /\ \A i \in 1..(Len(line) - 1) : line[i] # 10
    /\ strict => Utf8Valid(line)

\* the lines are: tree, np parents, author, committer, blank, then a message
HasCommitForm(L, np, strict) ==
    /\ Len(L) >= np + 4
    /\ IsHashLine(TREE_LINE_PREFIX, L[1], strict)
    /\ \A i \in 2..(np + 1) : IsHashLine(PARENT_LINE_PREFIX, L[i], strict)
    /\ IsTextLine(AUTHOR_LINE_PREFIX, L[np + 2], strict)
    /\ IsTextLine(COMMITTER_LINE_PREFIX, L[np + 3], strict)
    /\ L[np + 4] = <<10>>
    /\ strict => Utf8Valid(Concat(SubSeq(L, np + 5, Len(L))))

IsCommitForm(L, strict) == \E np \in 0..Len(L) : HasCommitForm(L, np, strict)

HexOfLine(prefix, line) == SubSeq(line, Len(prefix) + 1, Len(line) - 1)

\* the parents are those of the parent lines, in their order, and the
\* message is everything after the blank line
CommitAsWritten(L, commit) ==
    LET np == Len(commit._parents)
    IN  /\ HasCommitForm(L, np, FALSE)
        /\ Hash_to_string(commit._tree) = HexOfLine(TREE_LINE_PREFIX, L[1])
        /\ \A i \in 1..np :
              Hash_to_string(commit._parents[i]) = HexOfLine(PARENT_LINE_PREFIX, L[i + 1])
        /\ commit._message = Concat(SubSeq(L, np + 5, Len(L)))

HeaderChecked == check_header(object, COMMIT_HEADER) = Some(Concat(written))

\* C6 as stated: parse_commit succeeds exactly on the header-checked bodies
\* of the form tree, parents, author, committer, blank line, message (the
\* hashes 40 hex digits, the lines and the message any bytes), with the
\* parents in payload order and the message verbatim.
C6_CommitForm ==
    pc = "done" =>
        /\ ret.some <=> (HeaderChecked /\ IsCommitForm(written, FALSE))
        /\ ret.some => CommitAsWritten(written, ret.val)

\* C6 amended: the same, for hashes of 40 lowercase hex digits and author
\* line, committer line and message that are valid UTF-8.
C6_CommitFormUtf8 ==
    pc = "done" =>
        /\ ret.some <=> (HeaderChecked /\ IsCommitForm(written, TRUE))
        /\ ret.some => CommitAsWritten(written, ret.val)

C6_Witness ==
    /\ pc = "done"
    /\ ret.some
    /\ ret.val._parents = <<HashC, HashB>>
    /\ ret.val._message = TextLine \o BlankLine \o TextLine

----------------------------------------------------------------------------
(* Inputs of the parse_tree runs: a tree body is written as a sequence of  *)
(* records, of which the first `keep` bytes are stored, followed by        *)
(* `trailing`; the framing is the object header put before it.             *)

\* a written tree has at most this many records (single records aside)
MaxEntries == 2

\* a hash holding the bytes that delimit a record: NUL and space
HashS == [i \in 1..HASH_BYTES |-> IF i % 3 = 0 THEN 0 ELSE IF i % 3 = 1 THEN 32 ELSE 49]

ValidModes == { MODE_DIRECTORY, MODE_FILE, MODE_EXECUTABLE, MODE_SYMLINK }

\* 040000, no mode at all, 100664, 4000, and the gitlink mode 160000
OtherModes ==
    { <<48>> \o MODE_DIRECTORY, <<>>, <<49, 48, 48, 54, 54, 52>>,
      <<52, 48, 48, 48>>, <<49, 54, 48, 48, 48, 48>> }

EntryNames == { <<97>>, <<98, 32, 99>>, <<>>, <<195, 169>>, <<255>> }

AllRecords ==
    { [mode |-> md, name |-> nm, hash |-> h] :
        md \in ValidModes \cup OtherModes, nm \in EntryNames,
        h \in { HashA, HashS } }

PoolRecords ==
    { [mode |-> md, name |-> <<97>>, hash |-> HashS] :
        md \in ValidModes \cup { <<48>> \o MODE_DIRECTORY } }
      \cup { [mode |-> MODE_FILE, name |-> <<255>>, hash |-> HashA] }

RecordLists == SeqsUpTo(PoolRecords, MaxEntries) \cup { <<r>> : r \in AllRecords }

\* <mode> <name> NUL <20-byte hash>
RecordBytes(r) == r.mode \o <<32>> \o r.name \o <<0>> \o r.hash

RECURSIVE TreeBytes(_)
TreeBytes(rs) == IF rs = <<>> THEN <<>> ELSE RecordBytes(Head(rs)) \o TreeBytes(Tail(rs))

\* bytes after the last record that are no record: no space, no NUL, and
\* a hash one byte short
TrailingBytes ==
    { <<120>>, MODE_FILE \o <<32, 97>>,
      MODE_FILE \o <<32, 97, 0>> \o SubSeq(HashA, 1, HASH_BYTES - 1) }

\* where the last record of rs starts in the body: a cut before it is a cut
\* of a shorter list
LastRecordStart(rs) ==
    IF rs = <<>> THEN 0 ELSE Len(TreeBytes(SubSeq(rs, 1, Len(rs) - 1)))

WrittenTrees ==
    UNION { { [entries |-> rs, keep |-> k, trailing |-> <<>>, framing |-> "header"] :
                k \in LastRecordStart(rs)..Len(TreeBytes(rs)) } : rs \in RecordLists }
      \cup { [entries |-> rs, keep |-> Len(TreeBytes(rs)), trailing |-> t, framing |-> "header"] :
                rs \in RecordLists, t \in TrailingBytes }
      \cup { [entries |-> rs, keep |-> Len(TreeBytes(rs)), trailing |-> <<>>, framing |-> f] :
                rs \in RecordLists, f \in { "none", "oversize" } }

StoredBody(w) == SubSeq(TreeBytes(w.entries), 1, w.keep) \o w.trailing

StoredObject(w) ==
    IF w.framing = "none" THEN StoredBody(w)
    ELSE WithHeader(TREE_HEADER,
                    Len(StoredBody(w)) + (IF w.framing = "oversize" THEN 1 ELSE 0),
                    StoredBody(w))

----------------------------------------------------------------------------
(* The parse_tree run *)

TreeInit ==
    /\ WalkIdle
    /\ HexIdle
    /\ HeadIdle
    /\ IndexIdle
    /\ pc = "parse_tree"
    /\ header = TREE_HEADER
    /\ written \in WrittenTrees
    /\ object = StoredObject(written)
    /\ ret = None

call_parse_tree ==
    /\ pc = "parse_tree"
    /\ ret' = parse_tree(object)
    /\ pc' = "done"
    /\ UNCHANGED <<hexVars, walkVars, headVars, indexVars, header, object, written>>

TreeNext == call_parse_tree

SpecTree == TreeInit /\ [][TreeNext]_vars

----------------------------------------------------------------------------
(* Claims about parse_tree *)

\* where record i of the written records ends in the body
RecordEnd(rs, i) == Len(TreeBytes(SubSeq(rs, 1, i)))

\* the stored body ends where a written record ends (or before the first)
AtBoundary(w) == \E i \in 0..Len(w.entries) : RecordEnd(w.entries, i) = w.keep

\* how many written records are stored whole
KeptRecords(w) ==
    CHOOSE n \in 0..Len(w.entries) :
        /\ RecordEnd(w.entries, n) <= w.keep
        /\ \A m \in (n + 1)..Len(w.entries) : RecordEnd(w.entries, m) > w.keep

WellFormedRecord(r) == r.mode \in ValidModes /\ Utf8Valid(r.name)

\* C7: parse_tree reads the declared payload as a repetition of
\* <mode> <name> NUL <20-byte hash> records: a whole number of well-formed
\* records gives one TreeEntry per record in payload order; a body that ends
\* inside a record, has trailing bytes that form no record, or is not the
\* declared payload fails; `tree 0\0` and the empty byte sequence give a
\* Tree of zero entries.
C7_TreeRecords ==
    pc = "done" =>
        LET w == written
            n == KeptRecords(w)
        IN  /\ ( /\ w.framing = "header"
                 /\ w.trailing = <<>>
                 /\ AtBoundary(w)
                 /\ \A i \in 1..n : WellFormedRecord(w.entries[i]) )
                  => /\ ret.some
                     /\ Len(ret.val) = n
                     /\ \A i \in 1..n : /\ ret.val[i].name = w.entries[i].name
                                        /\ ret.val[i].hash = w.entries[i].hash
            /\ (w.framing = "header" /\ ~AtBoundary(w)) => ret = None
            /\ (w.framing = "header" /\ w.trailing # <<>>) => ret = None
            /\ w.framing = "oversize" => ret = None
            /\ (w.framing = "none" /\ w.entries # <<>>) => ret = None
            /\ (w.entries = <<>> /\ w.trailing = <<>> /\ w.framing \in {"header", "none"})
                  => /\ ret = Some(<<>>)
                     /\ object \in { <<>>, TREE_HEADER \o <<48, 0>> }

C7_Witness ==
    /\ pc = "done"
    /\ ret.some
    /\ Len(ret.val) = 2
    /\ ret.val[1].hash = HashS
    /\ ret.val[2].name = <<97>>

\* the Mode the claim gives each mode text
ModeOfText(mode) ==
    CASE mode = <<52, 48, 48, 48, 48>> -> "Directory"
      [] mode = <<49, 48, 48, 54, 52, 52>> -> "File"
      [] mode = <<49, 48, 48, 55, 53, 53>> -> "File"
      [] mode = <<49, 50, 48, 48, 48, 48>> -> "SymbolicLink"
      [] OTHER -> "unknown"

\* C8: the mode digits map 40000 to Directory, 100644 and 100755 to File and
\* 120000 to SymbolicLink; a record with any other mode text (040000, an
\* empty mode, ...) fails the whole parse.
C8_Modes ==
    (pc = "done" /\ written.framing = "header") =>
        /\ (\E i \in 1..KeptRecords(written) :
                ModeOfText(written.entries[i].mode) = "unknown") => ret = None
        /\ ret.some =>
              \A i \in 1..Len(ret.val) :
                  ret.val[i].mode = ModeOfText(written.entries[i].mode)

C8_Witness ==
    /\ pc = "done"
    /\ ret = None
    /\ written.framing = "header"
    /\ written.trailing = <<>>
    /\ Len(written.entries) = 2
    /\ written.keep = Len(TreeBytes(written.entries))
    /\ written.entries[1].mode = MODE_EXECUTABLE
    /\ written.entries[2].mode = <<48>> \o MODE_DIRECTORY
    /\ \A i \in 1..2 : Utf8Valid(written.entries[i].name)

----------------------------------------------------------------------------
(* Inputs of the head resolution runs *)

\* a head or ref file ends in at most this many characters of whitespace
MaxTrailing == 2

BranchMain == <<109, 97, 105, 110>>

BranchDev == <<100, 101, 118>>

BranchGone == <<103, 111, 110, 101>>

\* newline, space, and the no-break space U+00A0
WhitespaceChars == { <<10>>, <<32>>, <<194, 160>> }

Trailings == { Concat(t) : t \in SeqsUpTo(WhitespaceChars, MaxTrailing) }

HashTexts ==
    { Hash_to_string(HashA), Hash_to_string(HashB),
      UpperText(Hash_to_string(HashA)),
      SubSeq(Hash_to_string(HashA), 1, 2 * HASH_BYTES - 2),
      <<32>> \o Hash_to_string(HashA) }

HeadTexts ==
    { text \o t :
        text \in HashTexts
                   \cup { REF_PREFIX \o b : b \in {BranchMain, BranchDev, BranchGone, <<>>} }
                   \cup { <<>>, <<255>>,
                          SubSeq(REF_PREFIX, 1, 4) \o Drop(REF_PREFIX, 5) \o BranchMain,
                          <<32>> \o REF_PREFIX \o BranchMain },
        t \in Trailings }

MainRefTexts ==
    { Hash_to_string(HashA) \o t : t \in Trailings }
      \cup { Hash_to_string(HashB), UpperText(Hash_to_string(HashA)) \o <<10>>,
             REF_PREFIX \o BranchDev \o <<10>>, <<255, 10>>, <<>> }

RefStores ==
    { <<>> }
      \cup { (BranchMain :> m) : m \in MainRefTexts }
      \cup { (BranchMain :> m) @@ (BranchDev :> Hash_to_string(HashC) \o <<10>>) :
                m \in { Hash_to_string(HashA) \o <<10>>, Hash_to_string(HashA) \o <<10, 10>> } }

----------------------------------------------------------------------------
(* The head resolution run: main's get_head()?, then head.get_hash()? *)

HeadInit ==
    /\ WalkIdle
    /\ HexIdle
    /\ ObjectIdle
    /\ IndexIdle
    /\ pc = "get_head"
    /\ head_file \in { None } \cup { Some(t) : t \in HeadTexts }
    /\ ref_files \in RefStores
    /\ head = None
    /\ head_hash = None

call_get_head ==
    /\ pc = "get_head"
    /\ head' = get_head(head_file)
    /\ pc' = IF head'.some THEN "get_hash" ELSE "error"
    /\ UNCHANGED <<hexVars, walkVars, objectVars, indexVars, head_file, ref_files, head_hash>>

call_get_hash ==
    /\ pc = "get_hash"
    /\ head_hash' = get_hash(head.val, ref_files)
    /\ pc' = IF head_hash'.some THEN "resolved" ELSE "error"
    /\ UNCHANGED <<hexVars, walkVars, objectVars, indexVars, head_file, ref_files, head>>

HeadNext == call_get_head \/ call_get_hash

SpecHead == HeadInit /\ [][HeadNext]_vars

----------------------------------------------------------------------------
(* Claims about head resolution *)

\* the text with exactly one trailing newline removed, if it has one
TrimOneNewline(s) ==
    IF s # <<>> /\ s[Len(s)] = 10 THEN SubSeq(s, 1, Len(s) - 1) ELSE s

\* head resolution as the claim describes it
ResolveByOneNewline(head_contents, files) ==
    IF ~head_contents.some THEN None
    ELSE LET text == TrimOneNewline(head_contents.val)
         IN  IF StartsWith(text, REF_PREFIX)
             THEN LET contents == RefFile(files, Drop(text, Len(REF_PREFIX)))
                  IN  IF ~contents.some THEN None
                      ELSE Hash_from_str(TrimOneNewline(contents.val))
             ELSE Hash_from_str(text)

\* C9 as stated: resolution trims exactly one trailing newline from the head
\* text and from the ref file, takes `ref: refs/heads/<name>` as a branch and
\* anything else as a hash, and fails when the file is absent or the text
\* does not decode.
C9_HeadResolution ==
    pc \in {"resolved", "error"} =>
        head_hash = ResolveByOneNewline(head_file, ref_files)

----------------------------------------------------------------------------
(* Inputs of the pack index runs *)

\* an index file holds at most this many hashes
MaxHashes == 2

\* a hash of bucket b
BucketHash(b, t) ==
    [i \in 1..HASH_BYTES |-> IF i = 1 THEN b ELSE IF i = HASH_BYTES THEN t ELSE 7]

\* a hash of bucket 0 above the others of the bucket by its second byte (a
\* byte above 127) and below them by its last
HighHash == [BucketHash(0, 0) EXCEPT ![2] = 200]

HashPool ==
    { BucketHash(0, 1), BucketHash(0, 2), HighHash, BucketHash(1, 1),
      BucketHash(255, 1) }

to_be_bytes(n) ==
    <<(n \div 16777216) % 256, (n \div 65536) % 256, (n \div 256) % 256, n % 256>>

\* the table whose counter is c0 for byte 0, c1 for bytes 1..254, c255 for 255
FanoutBytes(c0, c1, c255) ==
    [k \in 1..(4 * FANOUT_ENTRIES) |->
        LET b == (k - 1) \div 4
            c == IF b = 0 THEN c0 ELSE IF b = FANOUT_ENTRIES - 1 THEN c255 ELSE c1
        IN  to_be_bytes(c)[((k - 1) % 4) + 1]]

IndexBytes(magic, version, fanout, hashes) ==
    magic \o to_be_bytes(version) \o fanout \o Concat(hashes)

\* a counter above 16 bits
LargeCounter == 65537

\* how many of the hashes have a first byte of at most b
RECURSIVE CountUpTo(_, _)
CountUpTo(hashes, b) ==
    IF hashes = <<>> THEN 0
    ELSE (IF Head(hashes)[1] <= b THEN 1 ELSE 0) + CountUpTo(Tail(hashes), b)

\* the counters that fit the hashes, and those with one class of counters
\* one too large or one too small
Perturbations ==
    { <<0, 0, 0>>, <<1, 0, 0>>, <<-1, 0, 0>>, <<0, 1, 0>>, <<0, -1, 0>>,
      <<0, 0, 1>>, <<0, 0, -1>> }

FanoutsFor(hashes) ==
    { FanoutBytes(CountUpTo(hashes, 0) + d[1], CountUpTo(hashes, 1) + d[2],
                  CountUpTo(hashes, 255) + d[3]) :
        d \in { e \in Perturbations :
                  /\ CountUpTo(hashes, 0) + e[1] >= 0
                  /\ CountUpTo(hashes, 1) + e[2] >= 0
                  /\ CountUpTo(hashes, 255) + e[3] >= 0 } }
      \cup { FanoutBytes(CountUpTo(hashes, 0), CountUpTo(hashes, 1), LargeCounter) }

WellHeadedFiles ==
    UNION { { IndexBytes(INDEX_MAGIC, INDEX_VERSION, fanout, hashes) :
                fanout \in FanoutsFor(hashes) } :
            hashes \in SeqsUpTo(HashPool, MaxHashes) }

OneIndex ==
    IndexBytes(INDEX_MAGIC, INDEX_VERSION, FanoutBytes(1, 1, 1), <<BucketHash(0, 1)>>)

OtherFiles ==
    { IndexBytes([INDEX_MAGIC EXCEPT ![4] = 67], INDEX_VERSION,
                 FanoutBytes(0, 0, 0), <<>>),
      IndexBytes(INDEX_MAGIC, 3, FanoutBytes(0, 0, 0), <<>>) }
      \cup { SubSeq(OneIndex, 1, n) :
                n \in {0, 3, 4, 7, 8, 8 + 4 * FANOUT_ENTRIES - 1, Len(OneIndex) - 1} }

IndexFiles == { None } \cup { Some(f) : f \in WellHeadedFiles \cup OtherFiles }

----------------------------------------------------------------------------
(* The read_pack_index run *)

IndexInit ==
    /\ WalkIdle
    /\ HexIdle
    /\ ObjectIdle
    /\ HeadIdle
    /\ pc = "open"
    /\ overflow_checks \in BOOLEAN
    /\ file \in IndexFiles
    /\ pos = 0
    /\ cumulative_objects = [i \in 1..FANOUT_ENTRIES |-> WordOf(0, U32_LIMBS)]
    /\ previous_objects = WordOf(0, U32_LIMBS)
    /\ first_byte = 0
    /\ range = [start |-> WordOf(0, U32_LIMBS), end |-> WordOf(0, U32_LIMBS)]
    /\ previous_hash = None
    /\ outcome = "running"

\* the function returns or panics
Exit(how) == outcome' = how /\ pc' = "exit"

\* File::open(..)?
open_index ==
    /\ pc = "open"
    /\ IF ~file.some THEN Exit("io_error") ELSE pc' = "magic" /\ outcome' = outcome
    /\ UNCHANGED <<hexVars, walkVars, objectVars, headVars, overflow_checks, file, pos,
                   cumulative_objects, previous_objects, first_byte, range,
                   previous_hash>>

\* let magic = read_bytes(&mut file)?; assert_eq!(magic, *b"\xfftOc");
check_magic ==
    /\ pc = "magic"
    /\ LET magic == read_bytes(file.val, pos, 4)
       IN  IF ~magic.some THEN Exit("io_error") /\ pos' = pos
           ELSE IF magic.val # INDEX_MAGIC THEN Exit("panic") /\ pos' = pos + 4
           ELSE pc' = "version" /\ outcome' = outcome /\ pos' = pos + 4
    /\ UNCHANGED <<hexVars, walkVars, objectVars, headVars, overflow_checks, file,
                   cumulative_objects, previous_objects, first_byte, range,
                   previous_hash>>

\* let version = read_u32(&mut file)?; assert_eq!(version, 2);
check_version ==
    /\ pc = "version"
    /\ LET version == read_u32(file.val, pos)
       IN  IF ~version.some THEN Exit("io_error") /\ pos' = pos
           ELSE IF version.val # WordOf(INDEX_VERSION, U32_LIMBS)
                THEN Exit("panic") /\ pos' = pos + 4
           ELSE pc' = "fanout" /\ outcome' = outcome /\ pos' = pos + 4
    /\ UNCHANGED <<hexVars, walkVars, objectVars, headVars, overflow_checks, file,
                   cumulative_objects, previous_objects, first_byte, range,
                   previous_hash>>

\* for objects in &mut cumulative_objects { *objects = read_u32(&mut file)?; }
read_fanout ==
    /\ pc = "fanout"
    /\ LET counters == ReadCounters(file.val, pos)
       IN  IF ~counters.some
           THEN Exit("io_error") /\ UNCHANGED <<pos, cumulative_objects>>
           ELSE /\ cumulative_objects' = counters.val
                /\ pos' = pos + 4 * FANOUT_ENTRIES
                /\ pc' = "buckets"
                /\ outcome' = outcome
    /\ UNCHANGED <<hexVars, walkVars, objectVars, headVars, overflow_checks, file,
                   previous_objects, first_byte, range, previous_hash>>

\* the head of `for (first_byte, &objects) in cumulative_objects.iter()
\* .enumerate()`: the range 0..(objects - previous_objects) of the bucket.
\* The subtraction of a smaller counter panics in a build with overflow
\* checks and wraps in one without; a bucket of no hashes is left at once
\* (previous_objects = objects); after the last bucket the function returns
\* Ok(()).
next_bucket ==
    /\ pc = "buckets"
    /\ IF first_byte = FANOUT_ENTRIES
       THEN Exit("ok") /\ UNCHANGED <<range, previous_hash, previous_objects, first_byte>>
       ELSE LET objects == cumulative_objects[first_byte + 1]
                size == WordSub(objects, previous_objects, 0)
            IN  IF size.borrow # 0 /\ overflow_checks
                THEN /\ Exit("panic")
                     /\ UNCHANGED <<range, previous_hash, previous_objects, first_byte>>
                ELSE /\ range' = [start |-> WordOf(0, U32_LIMBS), end |-> size.limbs]
                     /\ previous_hash' = None
                     /\ outcome' = outcome
                     /\ IF WordLess(WordOf(0, U32_LIMBS), size.limbs)
                        THEN pc' = "hashes" /\ UNCHANGED <<previous_objects, first_byte>>
                        ELSE /\ previous_objects' = objects
                             /\ first_byte' = first_byte + 1
                             /\ pc' = pc
    /\ UNCHANGED <<hexVars, walkVars, objectVars, headVars, overflow_checks, file, pos,
                   cumulative_objects>>

\* one step of `for _ in 0..(objects - previous_objects)`: read a hash and
\* check its first byte and its order, or leave the loop
\* (previous_objects = objects) when the range is exhausted
next_hash ==
    /\ pc = "hashes"
    /\ IF ~WordLess(range.start, range.end)
       THEN /\ previous_objects' = cumulative_objects[first_byte + 1]
            /\ first_byte' = first_byte + 1
            /\ pc' = "buckets"
            /\ UNCHANGED <<pos, range, previous_hash, outcome>>
       ELSE /\ range' = [range EXCEPT !.start = MulAdd(@, 1, 1).limbs]
            /\ UNCHANGED <<previous_objects, first_byte>>
            /\ LET h == read_hash(file.val, pos)
               IN  IF ~h.some
                   THEN Exit("io_error") /\ UNCHANGED <<pos, previous_hash>>
                   ELSE /\ pos' = pos + HASH_BYTES
                        /\ IF h.val[1] # first_byte
                           THEN Exit("panic") /\ UNCHANGED previous_hash
                           ELSE IF previous_hash.some
                                   /\ ~HashGreater(h.val, previous_hash.val)
                           THEN Exit("panic") /\ UNCHANGED previous_hash
                           ELSE /\ previous_hash' = h
                                /\ UNCHANGED <<pc, outcome>>
    /\ UNCHANGED <<hexVars, walkVars, objectVars, headVars, overflow_checks, file,
                   cumulative_objects>>

IndexNext ==
    \/ open_index
    \/ check_magic
    \/ check_version
    \/ read_fanout
    \/ next_bucket
    \/ next_hash

SpecIndex == IndexInit /\ [][IndexNext]_vars

----------------------------------------------------------------------------
(* Claims about read_pack_index *)

\* the counter of the bucket being read is smaller than the one before it
CounterDecreases ==
    WordLess(cumulative_objects[first_byte + 1], previous_objects)

\* some counter of the table read is smaller than its predecessor
TableDecreases ==
    \E b \in 2..FANOUT_ENTRIES :
        WordLess(cumulative_objects[b], cumulative_objects[b - 1])

\* C10 as stated: the counters are checked to be non-decreasing: an index
\* whose table decreases somewhere never validates, and no hash is ever read
\* for a bucket whose size is the wrapped difference of a smaller counter
\* and its predecessor.
C10_MonotoneChecked ==
    /\ (pc = "hashes" => ~CounterDecreases)
    /\ (pc = "exit" /\ outcome = "ok") => ~TableDecreases

----------------------------------------------------------------------------
(* Claims about the hash table of the pack index *)

\* where the hash table starts: after the magic, the version and the counters
HashTableStart == 8 + 4 * FANOUT_ENTRIES

\* counter b of the file as written, big-endian; the counter before the
\* first is 0
Fanout(b) ==
    IF b < 0 THEN 0
    ELSE LET p == 8 + 4 * b
         IN  file.val[p + 1] * 16777216 + file.val[p + 2] * 65536
               + file.val[p + 3] * 256 + file.val[p + 4]

FanoutMonotone == \A b \in 0..(FANOUT_ENTRIES - 1) : Fanout(b - 1) <= Fanout(b)

\* how many whole hashes the file holds after the counters
Available == (Len(file.val) - HashTableStart) \div HASH_BYTES

\* hash k of the table, counted from 0
HashAt(k) ==
    SubSeq(file.val, HashTableStart + HASH_BYTES * k + 1,
           HashTableStart + HASH_BYTES * (k + 1))

\* the bucket the counters put hash k in
BucketOf(k) ==
    CHOOSE b \in 0..(FANOUT_ENTRIES - 1) : Fanout(b - 1) <= k /\ k < Fanout(b)

\* a < b in unsigned byte-lexicographic order (equal lengths)
LexLess(a, b) ==
    \E i \in 1..Len(a) : a[i] < b[i] /\ \A j \in 1..(i - 1) : a[j] = b[j]

\* every hash of the table has its bucket's leading byte and is above the
\* hash before it when that one is of the same bucket
TableSorted ==
    \A k \in 0..(Fanout(FANOUT_ENTRIES - 1) - 1) :
        /\ HashAt(k)[1] = BucketOf(k)
        /\ (k > 0 /\ BucketOf(k - 1) = BucketOf(k)) => LexLess(HashAt(k - 1), HashAt(k))

\* C11: once the header and a non-decreasing table of counters are read,
\* read_pack_index succeeds exactly when the file holds the hashes the
\* counters announce and, bucket by bucket, every hash has the bucket's
\* leading byte and is strictly greater, byte by byte, than the hash before
\* it in the bucket: descending or equal hashes of one bucket fail, the
\* same hashes ascending pass.
C11_SortedBuckets ==
    (pc = "exit" /\ pos >= HashTableStart /\ FanoutMonotone)
        => (outcome = "ok" <=> (Fanout(FANOUT_ENTRIES - 1) <= Available /\ TableSorted))

\* two hashes of bucket 0 in descending byte order, the second of them
\* smaller by its second byte and larger by its last, stopped the reader
C11_Witness ==
    /\ pc = "exit"
    /\ outcome = "panic"
    /\ pos = HashTableStart + 2 * HASH_BYTES
    /\ FanoutMonotone
    /\ Fanout(0) = 2
    /\ HashAt(0) = HighHash
    /\ HashAt(1) = BucketHash(0, 1)
    /\ LexLess(HashAt(1), HashAt(0))

----------------------------------------------------------------------------
(* Inputs of the get_file_blob runs: an objects directory of up to four    *)
(* files, a root tree, the object its entry "a" names, the object that     *)
(* one's entry "b" names and the object that one's entry "c" names, each   *)
(* of them present as a tree, present as a blob, damaged or absent.        *)

\* the longest path asked for, in segments
MaxDepth == 3

RootHash == HashA

SubHash == HashB

LeafHash == HashC

DeepHash == HashS

NameA == <<97>>

NameB == <<98>>

NameC == <<99>>

TreeObject(rs) == WithHeader(TREE_HEADER, Len(TreeBytes(rs)), TreeBytes(rs))

BlobObject(bytes) == WithHeader(BLOB_HEADER, Len(bytes), bytes)

\* a file that inflates to data, and one that does not inflate
Inflating(data) == Some([inflates |-> TRUE, data |-> data])

Damaged == Some([inflates |-> FALSE, data |-> <<>>])

TreeEntryOf(mode, name, h) == [mode |-> mode, name |-> name, hash |-> h]

RootFiles ==
    { Inflating(TreeObject(<<TreeEntryOf(md, NameA, SubHash)>>)) : md \in ValidModes }
      \cup { Inflating(TreeObject(<<TreeEntryOf(MODE_DIRECTORY, NameA, SubHash),
                                    TreeEntryOf(MODE_FILE, NameA, LeafHash)>>)),
             Inflating(TreeObject(<<TreeEntryOf(MODE_FILE, NameB, LeafHash),
                                    TreeEntryOf(MODE_DIRECTORY, NameA, SubHash)>>)),
             Inflating(TreeObject(<<>>)),
             Inflating(BlobObject(<<104, 105>>)),
             Damaged,
             None }

SubFiles ==
    { Inflating(TreeObject(<<TreeEntryOf(md, NameB, LeafHash)>>)) :
        md \in { MODE_FILE, MODE_DIRECTORY } }
      \cup { Inflating(BlobObject(<<104, 105>>)),
             Inflating(WithHeader(TREE_HEADER, 1, <<>>)),
             Damaged,
             None }

LeafFiles ==
    { Inflating(BlobObject(<<120>>)),
      Inflating(BlobObject(<<>>)),
      Inflating(TreeObject(<<TreeEntryOf(MODE_FILE, NameC, DeepHash)>>)),
      Inflating(WithHeader(BLOB_HEADER, 2, <<120>>)),
      Damaged,
      None }

DeepFiles == { Inflating(BlobObject(<<121>>)), None }

\* the directory that holds the files given, each under its hash
Directory(files) ==
    [h \in { x \in DOMAIN files : files[x].some } |-> files[h].val]

Stores ==
    { Directory([h \in { RootHash, SubHash, LeafHash, DeepHash } |->
                    IF h = RootHash THEN root
                    ELSE IF h = SubHash THEN sub
                    ELSE IF h = LeafHash THEN leaf
                    ELSE deep]) :
        root \in RootFiles, sub \in SubFiles, leaf \in LeafFiles, deep \in DeepFiles }

\* segments joined by slashes
RECURSIVE Join(_)
Join(segments) ==
    IF Len(segments) = 1 THEN Head(segments)
    ELSE Head(segments) \o <<47>> \o Join(Tail(segments))

\* a, a/b, a/b/c, a/b/c/c ..
ChainPath(n) == Join([i \in 1..n |-> IF i = 1 THEN NameA ELSE IF i = 2 THEN NameB ELSE NameC])

Paths ==
    { ChainPath(n) : n \in 1..MaxDepth }
      \cup { NameB, Join(<<NameA, NameC>>), <<>>, Join(<<NameA, <<>>, NameB>>),
             Join(<<NameA, <<>>>>) }

----------------------------------------------------------------------------
(* The get_file_blob run *)

WalkInit ==
    /\ HexIdle
    /\ ObjectIdle
    /\ HeadIdle
    /\ IndexIdle
    /\ pc = "get_file_blob"
    /\ store \in Stores
    /\ path \in Paths
    /\ names = <<>>
    /\ walk_hash = RootHash
    /\ walk_tree = None
    /\ matched = <<>>
    /\ reads = <<>>
    /\ blob = None

\* let mut hash = tree; for name in path.split('/')
enter_get_file_blob ==
    /\ pc = "get_file_blob"
    /\ names' = Split(path)
    /\ pc' = "for_name"
    /\ UNCHANGED <<hexVars, objectVars, headVars, indexVars, store, path, walk_hash,
                   walk_tree, matched, reads, blob>>

\* one turn of the loop: let tree = read_tree(hash)?; let entry = tree.0
\* .iter().find(..).ok_or_else(..)?; hash = entry.hash;
next_name ==
    /\ pc = "for_name"
    /\ LET read == read_tree(store, walk_hash)
           entry == FindEntry(read.val, Head(names))
       IN  /\ reads' = Append(reads, [by |-> "read_tree", hash |-> walk_hash])
           /\ walk_tree' = read
           /\ IF ~read.some
              THEN /\ blob' = read
                   /\ pc' = "returned"
                   /\ UNCHANGED <<names, walk_hash, matched>>
              ELSE IF ~entry.some
              THEN /\ blob' = Err("No such entry")
                   /\ pc' = "returned"
                   /\ UNCHANGED <<names, walk_hash, matched>>
              ELSE /\ walk_hash' = entry.val.hash
                   /\ matched' = Append(matched, entry.val)
                   /\ names' = Tail(names)
                   /\ pc' = IF Tail(names) = <<>> THEN "read_blob" ELSE "for_name"
                   /\ blob' = blob
    /\ UNCHANGED <<hexVars, objectVars, headVars, indexVars, store, path>>

\* read_blob(hash)
call_read_blob ==
    /\ pc = "read_blob"
    /\ blob' = read_blob(store, walk_hash)
    /\ reads' = Append(reads, [by |-> "read_blob", hash |-> walk_hash])
    /\ pc' = "returned"
    /\ UNCHANGED <<hexVars, objectVars, headVars, indexVars, store, path, names,
                   walk_hash, walk_tree, matched>>

WalkNext == enter_get_file_blob \/ next_name \/ call_read_blob

SpecWalk == WalkInit /\ [][WalkNext]_vars

----------------------------------------------------------------------------
(* Claims about get_file_blob and read_object *)

\* where the slashes of the path are
Slashes == { i \in 1..Len(path) : path[i] = 47 }

SegmentCount == Cardinality(Slashes) + 1

\* the position of slash k of the path; 0 before the first, one past the
\* end of the path after the last
SlashAt(k) ==
    IF k = 0 THEN 0
    ELSE IF k = SegmentCount THEN Len(path) + 1
    ELSE CHOOSE i \in Slashes : Cardinality({ j \in Slashes : j < i }) = k - 1

\* segment k of the path, counted from 1
Segment(k) == SubSeq(path, SlashAt(k - 1) + 1, SlashAt(k) - 1)

\* a segment before the last was found as an entry that is no directory
ThroughNonDirectory ==
    \E k \in 1..Len(matched) : k < SegmentCount /\ matched[k].mode # "Directory"

\* C12 as stated, in its weaker half: get_file_blob never returns a Blob
\* for a path one of whose segments before the last resolves to an entry
\* whose mode is not Directory.
C12_NotADirectory ==
    (pc = "returned" /\ ThroughNonDirectory) => ~blob.some

\* the read_object calls made by read_tree, and the one made by read_blob
TreeReads == { k \in 1..Len(reads) : reads[k].by = "read_tree" }

BlobReads == { k \in 1..Len(reads) : reads[k].by = "read_blob" }

\* entry e is the first entry of that name in the tree
FirstNamed(entries, name, e) ==
    \E j \in 1..Len(entries) :
        /\ entries[j] = e
        /\ e.name = name
        /\ \A k \in 1..(j - 1) : entries[k].name # name

\* C13: get_file_blob takes the segments in order.  Read k is of the tree
\* at the current hash (the root, then the hash of the entry found for the
\* segment before), the entry found for segment k is the first of that
\* name in that tree, and the blob is read only after every segment was
\* found, at the hash of the last entry: n tree reads, then one blob read.
\* At the first segment that no entry of its tree is named after, the
\* function returns "No such entry" with no further read.
C13_WalkInOrder ==
    /\ Len(matched) <= SegmentCount
    /\ TreeReads = 1..Cardinality(TreeReads)
    /\ Cardinality(BlobReads) <= 1
    /\ Cardinality(TreeReads) \in { Len(matched), Len(matched) + 1 }
    /\ \A k \in TreeReads :
          reads[k].hash = IF k = 1 THEN RootHash ELSE matched[k - 1].hash
    /\ \A k \in 1..Len(matched) :
          FirstNamed(read_tree(store, reads[k].hash).val, Segment(k), matched[k])
    /\ \A k \in BlobReads :
          /\ k = SegmentCount + 1
          /\ Len(matched) = SegmentCount
          /\ reads[k].hash = matched[SegmentCount].hash
    /\ pc = "returned" =>
          /\ blob.some => (Len(reads) = SegmentCount + 1 /\ BlobReads # {})
          /\ (walk_tree.some /\ Len(matched) < SegmentCount) =>
                /\ blob = Err("No such entry")
                /\ Len(reads) = Len(matched) + 1
                /\ BlobReads = {}
                /\ \A j \in 1..Len(walk_tree.val) :
                      walk_tree.val[j].name # Segment(Len(matched) + 1)
          /\ blob = Err("No such entry") =>
                (walk_tree.some /\ Len(matched) < SegmentCount)

\* a path of three segments was found: three trees read, then the blob
C13_Witness ==
    /\ pc = "returned"
    /\ blob.some
    /\ SegmentCount = 3
    /\ Len(reads) = 4
    /\ reads[4].by = "read_blob"

\* the hash of the last read_object call has no file
LastReadMissing ==
    reads # <<>> /\ reads[Len(reads)].hash \notin DOMAIN store

\* C14: a hash without a file reads as an empty payload, not as an error:
\* read_tree of it succeeds with a tree of no entries, so get_file_blob
\* goes on to look the segment up in it and reports a missing entry, and
\* read_blob of it reports a malformed blob; no read error is returned.
C14_MissingIsEmpty ==
    LastReadMissing =>
        /\ read_object(store, reads[Len(reads)].hash) = Some(<<>>)
        /\ IF reads[Len(reads)].by = "read_tree"
           THEN /\ walk_tree = Some(<<>>)
                /\ pc = "returned"
                /\ blob = Err("No such entry")
           ELSE blob = Err("Malformed blob object")

\* the tree of a found entry has no file and was read as an empty tree
C14_Witness ==
    /\ LastReadMissing
    /\ Len(reads) = 2
    /\ reads[2].by = "read_tree"
    /\ walk_tree = Some(<<>>)
    /\ pc = "returned"

----------------------------------------------------------------------------
(* Claims about the bucket sizes of the pack index *)

\* the number a u32 of the reader holds
WordValue(w) == w[1] + LimbBase * w[2]

\* how many hashes have been read from the table
Consumed == (pos - HashTableStart) \div HASH_BYTES

\* C15: for a non-decreasing table of counters, the reader reads
\* fanout[b] - fanout[b-1] hashes for bucket b (fanout[-1] = 0): between
\* buckets the hashes consumed are the counter of the bucket just finished,
\* within a bucket they are that plus the hashes read of the bucket, of
\* which there are never more than the difference, and on success both the
\* hashes consumed and the total kept (previous_objects, the value of
\* _total_objects) are fanout[255].
C15_BucketCounts ==
    (pos >= HashTableStart /\ FanoutMonotone) =>
        /\ pc = "buckets" =>
              /\ Consumed = Fanout(first_byte - 1)
              /\ WordValue(previous_objects) = Fanout(first_byte - 1)
        /\ pc = "hashes" =>
              /\ WordValue(range.end) = Fanout(first_byte) - Fanout(first_byte - 1)
              /\ WordValue(range.start) <= WordValue(range.end)
              /\ Consumed = Fanout(first_byte - 1) + WordValue(range.start)
        /\ (pc = "exit" /\ outcome = "ok") =>
              /\ Consumed = Fanout(FANOUT_ENTRIES - 1)
              /\ WordValue(previous_objects) = Fanout(FANOUT_ENTRIES - 1)

\* an index of one hash in bucket 0 and one in a later bucket was read to
\* its end
C15_Witness ==
    /\ pc = "exit"
    /\ outcome = "ok"
    /\ FanoutMonotone
    /\ Fanout(0) = 1
    /\ Fanout(FANOUT_ENTRIES - 1) = 2
    /\ Consumed = 2

=============================================================================
